---- MODULE Spec2Model ----
(***************************************************************************)
(* Model of the Escrow blueprint of src/src/lib.rs: one escrow component   *)
(* (struct Escrow), its four operations (instantiate_escrow, exchange,     *)
(* withdraw_resource, cancel_escrow), the shared check                     *)
(* verify_escrow_badge, and the bucket / vault primitives the code calls.  *)
(*                                                                         *)
(* A container (a Bucket or a Vault) is a record [addr, amt, ids]: the     *)
(* resource address, the fungible quantity, and the set of non-fungible    *)
(* local ids.  A call that panics (assert!, assert_eq!) aborts the whole   *)
(* transaction: the component, the presented bucket and the wallets stay   *)
(* as they were.  A bucket handed to a method is the caller's bucket: what *)
(* the method leaves in it is still the caller's after the call.           *)
(***************************************************************************)
EXTENDS Integers, FiniteSets, Sequences, TLC

\* ---------------------------------------------------------------- bounds
\* requested fungible amounts are 0..MaxAmount
MaxAmount == 2
\* offered fungible amounts are 1..MaxOffer
MaxOffer == 2
\* units of the requested fungible kind held outside the escrow
MaxSupply == 3
\* non-fungible local ids are 1..MaxIds
MaxIds == 2
\* successful exchanges since the last withdraw are counted up to MaxDeposits
MaxDeposits == 4

\* ------------------------------------------------------ resource addresses
FungibleKinds    == {"X", "Y"}
NonFungibleKinds == {"Z"}
EscrowBadgeKind  == "EscrowBadge"       \* the resource created by this instantiation
ForeignBadgeKind == "ForeignBadge"      \* the badge resource of another instantiation
BadgeKinds       == {EscrowBadgeKind, ForeignBadgeKind}
Kinds            == FungibleKinds \cup NonFungibleKinds \cup BadgeKinds
NFIds            == 1..MaxIds
BadgeIds         == {1}                 \* NonFungibleLocalId::random() draws from here
Parties          == {"creator", "taker"}

\* ------------------------------------------------- bucket / vault primitives
IsNonFungible(addr) == addr \in NonFungibleKinds \cup BadgeKinds

EmptyOf(addr) == [addr |-> addr, amt |-> 0, ids |-> {}]

NoBucket == [addr |-> "none", amt |-> 0, ids |-> {}]

\* Bucket::amount / Vault::amount: a non-fungible container counts its items
amount(b) == IF IsNonFungible(b.addr) THEN Cardinality(b.ids) ELSE b.amt

is_empty(b) == amount(b) = 0

\* Bucket::resource_address
resource_address(b) == b.addr

\* Bucket::contains_non_fungible
contains_non_fungible(b, id) == id \in b.ids

\* a take that empties the bucket instead of taking the amount asked for
take_whole_bucket(b, a) ==
    [taken |-> b, rest |-> EmptyOf(b.addr)]

\* Bucket::take(amount): splits the bucket into the taken part and the rest
take(b, a) ==
    [taken |-> [addr |-> b.addr, amt |-> a, ids |-> {}],
     rest  |-> [b EXCEPT !.amt = b.amt - a]]

\* a take that moves every item of the bucket, not only the one asked for
take_every_item(b, id) ==
    [taken |-> b, rest |-> EmptyOf(b.addr)]

\* Bucket::take_non_fungible(id)
take_non_fungible(b, id) ==
    [taken |-> [addr |-> b.addr, amt |-> 0, ids |-> {id}],
     rest  |-> [b EXCEPT !.ids = b.ids \ {id}]]

\* a put that replaces the content of the vault by the bucket
put_overwrites(v, b) == [v EXCEPT !.amt = b.amt, !.ids = b.ids]

\* a put that drops the bucket without crediting the vault
put_discards(v, b) == v

\* Vault::put(bucket): the whole bucket goes into the vault
put(v, b) == [v EXCEPT !.amt = v.amt + b.amt, !.ids = v.ids \cup b.ids]

\* a take_all that hands out the content and leaves it in the vault as well
take_all_keeps(v) == [taken |-> v, rest |-> v]

\* Vault::take_all(): everything leaves the vault
take_all(v) == [taken |-> v, rest |-> EmptyOf(v.addr)]

\* Vault::with_bucket(bucket)
with_bucket(b) == b

\* ------------------------------------------------------- ResourceSpecifier
Fungible(addr, a) ==
    [tag |-> "Fungible", resource_address |-> addr, amount |-> a,
     non_fungible_local_id |-> 0]

NonFungible(addr, id) ==
    [tag |-> "NonFungible", resource_address |-> addr, amount |-> 0,
     non_fungible_local_id |-> id]

get_resource_address(spec) == spec.resource_address

\* the requests and offers the model instantiates the escrow with
ResourceSpecifiers ==
    {Fungible("X", a) : a \in 0..MaxAmount} \cup
    {NonFungible("Z", id) : id \in NFIds}

OfferBuckets ==
    {[addr |-> "Y", amt |-> a, ids |-> {}] : a \in 1..MaxOffer} \cup
    {[addr |-> "Z", amt |-> 0, ids |-> s] : s \in (SUBSET NFIds) \ {{}}}

\* --------------------------------------------------------------- the state
VARIABLES
    escrow,       \* struct Escrow: requested_resource, offered_resource,
                  \* requested_resource_vault, escrow_nft
    wallets,      \* what each party holds, per resource address
    last,         \* the last call: operation, caller, outcome, buckets
    created,      \* the arguments instantiate_escrow was called with
    satisfied,    \* an exchange has succeeded
    canceled,     \* a cancel_escrow has succeeded
    withdrawn,    \* a withdraw_resource has succeeded after the first exchange
    placed,       \* what successful exchanges put into the requested vault
                  \* since the last successful withdraw_resource
    deposits      \* how many exchanges succeeded since the last successful
                  \* withdraw_resource, counted up to MaxDeposits

vars == <<escrow, wallets, last, created, satisfied, canceled, withdrawn, placed,
          deposits>>

\* ------------------------------------------------------------ the operations
\* an abort that keeps what the call did to the component and the bucket
\* before it panicked: nothing rolls the deposit back
AbortAfterDeposit(msg, self, bucket) ==
    [ok |-> FALSE, err |-> msg,
     self |-> [self EXCEPT !.requested_resource_vault = put(@, bucket)],
     bucket |-> EmptyOf(bucket.addr), ret |-> NoBucket]

Abort(msg, self, bucket) ==
    [ok |-> FALSE, err |-> msg, self |-> self, bucket |-> bucket, ret |-> NoBucket]

instantiate_escrow(requested_resource, offered_resource, badge_id) ==
    LET requested_resource_vault == EmptyOf(get_resource_address(requested_resource))
        escrow_badge == EscrowBadgeKind
        badge == [addr |-> escrow_badge, amt |-> 0, ids |-> {badge_id}]
    IN  [component |-> [requested_resource       |-> requested_resource,
                        offered_resource         |-> with_bucket(offered_resource),
                        requested_resource_vault |-> requested_resource_vault,
                        escrow_nft               |-> escrow_badge],
         badge |-> badge]

\* the match with the amount compared by > instead of >=
match_strict_amount(self, bucket_of_resource) ==
    LET rr == self.requested_resource IN
    IF rr.tag = "Fungible"
    THEN IF resource_address(bucket_of_resource) # rr.resource_address
         THEN Abort("Oooops wrong resource address", self, bucket_of_resource)
         ELSE IF ~(amount(bucket_of_resource) > rr.amount)
         THEN Abort("Insufficient amount of resource", self, bucket_of_resource)
         ELSE LET t == take(bucket_of_resource, rr.amount)
              IN  [ok |-> TRUE, err |-> "",
                   self |-> [self EXCEPT !.requested_resource_vault = put(@, t.taken)],
                   bucket |-> t.rest,
                   ret |-> NoBucket]
    ELSE IF resource_address(bucket_of_resource) # rr.resource_address
         THEN Abort("Oooops wrong resource address", self, bucket_of_resource)
         ELSE IF ~contains_non_fungible(bucket_of_resource, rr.non_fungible_local_id)
         THEN Abort("Non-fungible ID not found", self, bucket_of_resource)
         ELSE LET t == take_non_fungible(bucket_of_resource, rr.non_fungible_local_id)
              IN  [ok |-> TRUE, err |-> "",
                   self |-> [self EXCEPT !.requested_resource_vault = put(@, t.taken)],
                   bucket |-> t.rest,
                   ret |-> NoBucket]

\* the match on self.requested_resource (lines 53-72): the checks of the
\* branch, then the deposit of what the branch takes out of the bucket
match_requested_resource(self, bucket_of_resource) ==
    LET rr == self.requested_resource IN
    IF rr.tag = "Fungible"
    THEN IF resource_address(bucket_of_resource) # rr.resource_address
         THEN Abort("Oooops wrong resource address", self, bucket_of_resource)
         ELSE IF ~(amount(bucket_of_resource) >= rr.amount)
         THEN Abort("Insufficient amount of resource", self, bucket_of_resource)
         ELSE LET t == take(bucket_of_resource, rr.amount)
              IN  [ok |-> TRUE, err |-> "",
                   self |-> [self EXCEPT !.requested_resource_vault = put(@, t.taken)],
                   bucket |-> t.rest,
                   ret |-> NoBucket]
    ELSE IF resource_address(bucket_of_resource) # rr.resource_address
         THEN Abort("Oooops wrong resource address", self, bucket_of_resource)
         ELSE IF ~contains_non_fungible(bucket_of_resource, rr.non_fungible_local_id)
         THEN Abort("Non-fungible ID not found", self, bucket_of_resource)
         ELSE LET t == take_non_fungible(bucket_of_resource, rr.non_fungible_local_id)
              IN  [ok |-> TRUE, err |-> "",
                   self |-> [self EXCEPT !.requested_resource_vault = put(@, t.taken)],
                   bucket |-> t.rest,
                   ret |-> NoBucket]

\* an exchange that refuses to run once the offered vault has been emptied
exchange_only_once(self, bucket_of_resource) ==
    IF is_empty(self.offered_resource)
    THEN Abort("Nothing left to exchange", self, bucket_of_resource)
    ELSE LET m == match_requested_resource(self, bucket_of_resource) IN
         IF ~m.ok THEN m
         ELSE LET o == take_all(m.self.offered_resource)
              IN  [m EXCEPT !.self.offered_resource = o.rest, !.ret = o.taken]

\* the match, then line 74: self.offered_resource.take_all() is returned
exchange(self, bucket_of_resource) ==
    LET m == match_requested_resource(self, bucket_of_resource) IN
    IF ~m.ok THEN m
    ELSE LET o == take_all(m.self.offered_resource)
         IN  [m EXCEPT !.self.offered_resource = o.rest, !.ret = o.taken]

\* a check of the resource address only: an empty bucket passes
verify_kind_only(self, escrow_nft) ==
    IF resource_address(escrow_nft) # self.escrow_nft THEN "Invalid Escrow NFT"
    ELSE ""

\* a check that accepts a non-empty bucket of any badge resource
verify_any_badge(self, escrow_nft) ==
    IF ~(resource_address(escrow_nft) \in BadgeKinds) THEN "Invalid Escrow NFT"
    ELSE IF ~(amount(escrow_nft) > 0) THEN "Empty Escrow NFT bucket"
    ELSE ""

\* "" when the badge is accepted, otherwise the message of the failed assertion
verify_escrow_badge(self, escrow_nft) ==
    IF resource_address(escrow_nft) # self.escrow_nft THEN "Invalid Escrow NFT"
    ELSE IF ~(amount(escrow_nft) > 0) THEN "Empty Escrow NFT bucket"
    ELSE ""

\* a withdraw that panics when there is nothing to withdraw
withdraw_requires_deposit(self, escrow_nft) ==
    LET v == verify_escrow_badge(self, escrow_nft) IN
    IF v # "" THEN Abort(v, self, escrow_nft)
    ELSE IF is_empty(self.requested_resource_vault)
    THEN Abort("Nothing to withdraw", self, escrow_nft)
    ELSE LET r == take_all(self.requested_resource_vault)
         IN  [ok |-> TRUE, err |-> "",
              self |-> [self EXCEPT !.requested_resource_vault = r.rest],
              bucket |-> escrow_nft,
              ret |-> r.taken]

\* a withdraw that burns the badge, as cancel_escrow does
withdraw_burns(self, escrow_nft) ==
    LET v == verify_escrow_badge(self, escrow_nft) IN
    IF v # "" THEN Abort(v, self, escrow_nft)
    ELSE LET r == take_all(self.requested_resource_vault)
         IN  [ok |-> TRUE, err |-> "",
              self |-> [self EXCEPT !.requested_resource_vault = r.rest],
              bucket |-> EmptyOf(escrow_nft.addr),
              ret |-> r.taken]

\* a withdraw that empties the offered vault, as cancel_escrow does
withdraw_offered(self, escrow_nft) ==
    LET v == verify_escrow_badge(self, escrow_nft) IN
    IF v # "" THEN Abort(v, self, escrow_nft)
    ELSE LET o == take_all(self.offered_resource)
         IN  [ok |-> TRUE, err |-> "",
              self |-> [self EXCEPT !.offered_resource = o.rest],
              bucket |-> escrow_nft,
              ret |-> o.taken]

withdraw_resource(self, escrow_nft) ==
    LET v == verify_escrow_badge(self, escrow_nft) IN
    IF v # "" THEN Abort(v, self, escrow_nft)
    ELSE LET r == take_all(self.requested_resource_vault)
         IN  [ok |-> TRUE, err |-> "",
              self |-> [self EXCEPT !.requested_resource_vault = r.rest],
              bucket |-> escrow_nft,
              ret |-> r.taken]

\* a cancel that returns the requested vault, as withdraw_resource does
cancel_takes_requested(self, escrow_nft) ==
    LET v == verify_escrow_badge(self, escrow_nft) IN
    IF v # "" THEN Abort(v, self, escrow_nft)
    ELSE LET r == take_all(self.requested_resource_vault)
         IN  [ok |-> TRUE, err |-> "",
              self |-> [self EXCEPT !.requested_resource_vault = r.rest],
              bucket |-> EmptyOf(escrow_nft.addr),
              ret |-> r.taken]

\* a cancel that hands the badge back instead of burning it
cancel_without_burn(self, escrow_nft) ==
    LET v == verify_escrow_badge(self, escrow_nft) IN
    IF v # "" THEN Abort(v, self, escrow_nft)
    ELSE LET o == take_all(self.offered_resource)
         IN  [ok |-> TRUE, err |-> "",
              self |-> [self EXCEPT !.offered_resource = o.rest],
              bucket |-> escrow_nft,
              ret |-> o.taken]

cancel_escrow(self, escrow_nft) ==
    LET v == verify_escrow_badge(self, escrow_nft) IN
    IF v # "" THEN Abort(v, self, escrow_nft)
    ELSE LET o == take_all(self.offered_resource)
         IN  [ok |-> TRUE, err |-> "",
              self |-> [self EXCEPT !.offered_resource = o.rest],
              bucket |-> EmptyOf(escrow_nft.addr),      \* escrow_nft.burn()
              ret |-> o.taken]

\* ------------------------------------------------------------- the wallets
\* every bucket party p can present: any part of one of its holdings,
\* the empty bucket of every resource included
BucketsOf(p) ==
    UNION {{[addr |-> k, amt |-> a, ids |-> s] :
                a \in 0..wallets[p][k].amt, s \in SUBSET wallets[p][k].ids} :
           k \in Kinds}

Minus(c, b) == [c EXCEPT !.amt = c.amt - b.amt, !.ids = c.ids \ b.ids]

Plus(c, b) == [c EXCEPT !.amt = c.amt + b.amt, !.ids = c.ids \cup b.ids]

\* the presented bucket is not handed back: what the call left in it is lost
Settle_loses_remainder(p, b, after, ret) ==
    [wallets EXCEPT ![p] =
        [k \in Kinds |->
            LET w1 == IF k = b.addr THEN Minus(wallets[p][k], b)
                      ELSE wallets[p][k]
            IN  IF k = ret.addr THEN Plus(w1, ret) ELSE w1]]

\* party p presented bucket b, got it back as after, and received ret
Settle(p, b, after, ret) ==
    [wallets EXCEPT ![p] =
        [k \in Kinds |->
            LET w1 == IF k = b.addr THEN Plus(Minus(wallets[p][k], b), after)
                      ELSE wallets[p][k]
            IN  IF k = ret.addr THEN Plus(w1, ret) ELSE w1]]

InitialWallets(offered, badge) ==
    [p \in Parties |-> [k \in Kinds |->
        IF p = "creator"
        THEN IF k = badge.addr THEN badge ELSE EmptyOf(k)
        ELSE IF k = "X" THEN [addr |-> k, amt |-> MaxSupply, ids |-> {}]
             ELSE IF k = "Z"
                  THEN [addr |-> k, amt |-> 0,
                        ids |-> NFIds \ (IF offered.addr = "Z" THEN offered.ids ELSE {})]
             ELSE IF k = ForeignBadgeKind THEN [addr |-> k, amt |-> 0, ids |-> {1}]
             ELSE EmptyOf(k)]]

Call(op, p, b, r) ==
    [op |-> op, caller |-> p, ok |-> r.ok, err |-> r.err,
     arg |-> b, argAfter |-> r.bucket, ret |-> r.ret]

Init ==
    \E requested_resource \in ResourceSpecifiers, offered_resource \in OfferBuckets,
       badge_id \in BadgeIds :
        LET r == instantiate_escrow(requested_resource, offered_resource, badge_id) IN
        /\ escrow = r.component
        /\ wallets = InitialWallets(offered_resource, r.badge)
        /\ created = [requested_resource |-> requested_resource,
                      offered_resource |-> offered_resource]
        /\ last = [op |-> "instantiate_escrow", caller |-> "creator", ok |-> TRUE,
                   err |-> "", arg |-> offered_resource,
                   argAfter |-> EmptyOf(offered_resource.addr), ret |-> r.badge]
        /\ satisfied = FALSE
        /\ canceled = FALSE
        /\ withdrawn = FALSE
        /\ placed = EmptyOf(get_resource_address(requested_resource))
        /\ deposits = 0

Exchange(p, b) ==
    LET r == exchange(escrow, b) IN
    /\ escrow' = r.self
    /\ wallets' = IF r.ok THEN Settle(p, b, r.bucket, r.ret) ELSE wallets
    /\ last' = Call("exchange", p, b, r)
    /\ satisfied' = (satisfied \/ r.ok)
    /\ placed' = IF r.ok THEN Plus(placed, Minus(b, r.bucket)) ELSE placed
    /\ deposits' = IF r.ok /\ deposits < MaxDeposits THEN deposits + 1 ELSE deposits
    /\ UNCHANGED <<created, canceled, withdrawn>>

\* a withdraw that looks at who calls: only the creator is served
Withdraw_creator_only(p, b) ==
    LET r == IF p # "creator" THEN Abort("Invalid Escrow NFT", escrow, b)
             ELSE withdraw_resource(escrow, b) IN
    /\ escrow' = r.self
    /\ wallets' = IF r.ok THEN Settle(p, b, r.bucket, r.ret) ELSE wallets
    /\ last' = Call("withdraw_resource", p, b, r)
    /\ withdrawn' = (withdrawn \/ (r.ok /\ satisfied))
    /\ placed' = IF r.ok THEN EmptyOf(placed.addr) ELSE placed
    /\ deposits' = IF r.ok THEN 0 ELSE deposits
    /\ UNCHANGED <<created, satisfied, canceled>>

Withdraw(p, b) ==
    LET r == withdraw_resource(escrow, b) IN
    /\ escrow' = r.self
    /\ wallets' = IF r.ok THEN Settle(p, b, r.bucket, r.ret) ELSE wallets
    /\ last' = Call("withdraw_resource", p, b, r)
    /\ withdrawn' = (withdrawn \/ (r.ok /\ satisfied))
    /\ placed' = IF r.ok THEN EmptyOf(placed.addr) ELSE placed
    /\ deposits' = IF r.ok THEN 0 ELSE deposits
    /\ UNCHANGED <<created, satisfied, canceled>>

Cancel(p, b) ==
    LET r == cancel_escrow(escrow, b) IN
    /\ escrow' = r.self
    /\ wallets' = IF r.ok THEN Settle(p, b, r.bucket, r.ret) ELSE wallets
    /\ last' = Call("cancel_escrow", p, b, r)
    /\ canceled' = (canceled \/ r.ok)
    /\ UNCHANGED <<created, satisfied, withdrawn, placed, deposits>>

\* the badge is a bearer credential: its holder can hand it to another party
Transfer(p, q, b) ==
    /\ p # q
    /\ b.addr = EscrowBadgeKind
    /\ ~is_empty(b)
    /\ wallets' = [wallets EXCEPT ![p][b.addr] = Minus(@, b), ![q][b.addr] = Plus(@, b)]
    /\ last' = [op |-> "transfer", caller |-> p, ok |-> TRUE, err |-> "",
                arg |-> b, argAfter |-> EmptyOf(b.addr), ret |-> NoBucket]
    /\ UNCHANGED <<escrow, created, satisfied, canceled, withdrawn, placed, deposits>>

Next ==
    \E p \in Parties : \E b \in BucketsOf(p) :
        \/ Exchange(p, b)
        \/ Withdraw(p, b)
        \/ Cancel(p, b)
        \/ \E q \in Parties : Transfer(p, q, b)

Spec == Init /\ [][Next]_vars

\* ------------------------------------------------------------ the claims
IsStep(op) == last'.op = op
Succeeds(op) == last'.op = op /\ last'.ok
Fails(op) == last'.op = op /\ ~last'.ok
OfferDeposited == escrow.offered_resource = created.offered_resource

ExchangePre(spec, b) ==
    /\ b.addr = spec.resource_address
    /\ IF spec.tag = "Fungible" THEN amount(b) >= spec.amount
       ELSE spec.non_fungible_local_id \in b.ids

\* C3: an exchange whose precondition fails aborts with an error and leaves
\* both vaults, the caller's bucket and holdings, and the credential as they
\* were.
C3_FailedSatisfyChangesNothing ==
    [][ (IsStep("exchange") /\ ~ExchangePre(escrow.requested_resource, last'.arg))
        => /\ ~last'.ok
           /\ last'.err \in {"Oooops wrong resource address",
                             "Insufficient amount of resource",
                             "Non-fungible ID not found"}
           /\ escrow' = escrow
           /\ last'.argAfter = last'.arg
           /\ last'.ret = NoBucket
           /\ wallets' = wallets ]_vars

\* a failed exchange of each kind: wrong address, short amount, missing item
C3_Witness ==
    /\ last.op = "exchange" /\ ~last.ok
    /\ ~is_empty(last.arg)
    /\ last.err = "Insufficient amount of resource"
    /\ ~is_empty(escrow.offered_resource)

InvalidCredential == {"Invalid Escrow NFT", "Empty Escrow NFT bucket"}
BadgeExists == \E p \in Parties : wallets[p][EscrowBadgeKind].ids # {}

\* C4: withdraw_resource or cancel_escrow called with a bucket of another
\* resource (the badge of another instance included) or with an empty bucket
\* fails with an invalid-credential error and changes neither vault, nor the
\* presented bucket, nor any holding: nothing is taken or burned.
C4_BadCredentialRejected ==
    [][ ((IsStep("withdraw_resource") \/ IsStep("cancel_escrow"))
         /\ (last'.arg.addr # escrow.escrow_nft \/ is_empty(last'.arg)))
        => /\ ~last'.ok
           /\ last'.err \in InvalidCredential
           /\ escrow' = escrow
           /\ last'.argAfter = last'.arg
           /\ last'.ret = NoBucket
           /\ wallets' = wallets ]_vars

\* the badge of another instance presented while the offer is still held
C4_Witness ==
    /\ last.op = "cancel_escrow" /\ ~last.ok
    /\ last.arg.addr = ForeignBadgeKind /\ ~is_empty(last.arg)
    /\ last.err = "Invalid Escrow NFT"
    /\ ~is_empty(escrow.offered_resource)

\* C5: a successful withdraw_resource after a successful exchange returns
\* exactly what the exchanges since the last withdraw placed in the requested
\* vault, hands it to the caller, and leaves the requested vault empty.
C5_WithdrawReturnsPlaced ==
    [][ (Succeeds("withdraw_resource") /\ satisfied)
        => LET c == last'.caller IN
           /\ last'.ret = placed
           /\ last'.ret = escrow.requested_resource_vault
           /\ is_empty(escrow'.requested_resource_vault)
           /\ escrow'.offered_resource = escrow.offered_resource
           /\ wallets'[c][last'.ret.addr] = Plus(wallets[c][last'.ret.addr], last'.ret) ]_vars

\* a withdraw that returned something and left the vault empty
C5_Witness ==
    /\ last.op = "withdraw_resource" /\ last.ok /\ satisfied
    /\ ~is_empty(last.ret)
    /\ is_empty(escrow.requested_resource_vault)
    /\ wallets[last.caller][last.ret.addr].amt >= last.ret.amt
    /\ last.ret.ids \subseteq wallets[last.caller][last.ret.addr].ids

\* C6: a successful cancel_escrow before any exchange returns exactly the
\* originally offered asset and destroys the credential; after a successful
\* cancel every withdraw_resource or cancel_escrow attempt fails with an
\* invalid-credential error.
C6_CancelReturnsOfferAndBurns ==
    [][ /\ (Succeeds("cancel_escrow") /\ ~satisfied)
           => /\ last'.ret = created.offered_resource
              /\ last'.arg.addr = escrow.escrow_nft /\ ~is_empty(last'.arg)
              /\ is_empty(last'.argAfter)
              /\ \A p \in Parties : wallets'[p][EscrowBadgeKind].ids = {}
              /\ is_empty(escrow'.offered_resource)
        /\ (canceled /\ (IsStep("withdraw_resource") \/ IsStep("cancel_escrow")))
           => /\ ~last'.ok
              /\ last'.err \in InvalidCredential
              /\ escrow' = escrow ]_vars

\* after a cancel before any exchange: the offer is back with a party, no
\* badge exists, and a further cancel attempt has just failed
C6_Witness ==
    /\ canceled /\ ~satisfied
    /\ last.op = "cancel_escrow" /\ ~last.ok
    /\ ~BadgeExists
    /\ \E p \in Parties :
          /\ wallets[p][created.offered_resource.addr].amt >= created.offered_resource.amt
          /\ created.offered_resource.ids \subseteq wallets[p][created.offered_resource.addr].ids

\* C7 as stated: before the first successful exchange at most one of the two
\* vaults is non-empty; from the first successful exchange until the next
\* successful withdraw the offered vault is empty and the requested vault is
\* non-empty.
C7_Original ==
    /\ ~satisfied =>
          ~(~is_empty(escrow.offered_resource) /\ ~is_empty(escrow.requested_resource_vault))
    /\ (satisfied /\ ~withdrawn) =>
          /\ is_empty(escrow.offered_resource)
          /\ ~is_empty(escrow.requested_resource_vault)

\* C7 as amended: the same, with the requested vault holding at least the
\* requested amount (fungible) or the requested item (non-fungible) between
\* the first successful exchange and the next successful withdraw; it is
\* non-empty then unless the requested amount is 0.
C7_Amended ==
    LET rr == escrow.requested_resource IN
    /\ ~satisfied =>
          ~(~is_empty(escrow.offered_resource) /\ ~is_empty(escrow.requested_resource_vault))
    /\ (satisfied /\ ~withdrawn) =>
          /\ is_empty(escrow.offered_resource)
          /\ IF rr.tag = "Fungible"
             THEN /\ escrow.requested_resource_vault.amt >= rr.amount
                  /\ (rr.amount > 0 => ~is_empty(escrow.requested_resource_vault))
             ELSE rr.non_fungible_local_id \in escrow.requested_resource_vault.ids

\* between the first exchange and the next withdraw, a positive request
C7_Witness ==
    /\ satisfied /\ ~withdrawn
    /\ escrow.requested_resource.tag = "Fungible"
    /\ escrow.requested_resource.amount > 0
    /\ escrow.requested_resource_vault.amt >= escrow.requested_resource.amount
    /\ is_empty(escrow.offered_resource)

\* C8 as stated: a successful exchange and a successful cancel never both
\* happen on the same instance.
C8_Original == ~(satisfied /\ canceled)

\* C9 as stated: whenever the requested vault is non-empty, the instance's
\* credential exists and passes the check of withdraw_resource.
C9_Original ==
    ~is_empty(escrow.requested_resource_vault)
        => \E p \in Parties : \E b \in BucketsOf(p) : verify_escrow_badge(escrow, b) = ""

\* C10: once the offered vault is empty it stays empty (it is empty after
\* every successful exchange or cancel), and every later exchange whose
\* preconditions hold still succeeds and returns an empty bucket.
C10_OfferedStaysEmpty ==
    [][ /\ is_empty(escrow.offered_resource) => is_empty(escrow'.offered_resource)
        /\ (satisfied' \/ canceled') => is_empty(escrow'.offered_resource)
        /\ (IsStep("exchange") /\ is_empty(escrow.offered_resource)
            /\ ExchangePre(escrow.requested_resource, last'.arg))
           => /\ last'.ok
              /\ is_empty(last'.ret)
              /\ last'.ret.addr = created.offered_resource.addr ]_vars

\* an exchange after a cancel: it succeeded and returned an empty bucket
C10_Witness ==
    /\ last.op = "exchange" /\ last.ok
    /\ canceled
    /\ is_empty(last.ret)
    /\ is_empty(escrow.offered_resource)
    /\ ~is_empty(escrow.requested_resource_vault)

ValidBadge(b) == b.addr = escrow.escrow_nft /\ ~is_empty(b)
BadgeHoldings(w) == [p \in Parties |-> w[p][EscrowBadgeKind]]

\* C11: a cancel_escrow with a valid credential after a successful exchange
\* succeeds, returns an empty bucket, leaves the requested vault unchanged
\* and destroys the credential.
C11_CancelAfterSatisfy ==
    [][ (IsStep("cancel_escrow") /\ satisfied /\ ValidBadge(last'.arg))
        => /\ last'.ok
           /\ is_empty(last'.ret)
           /\ last'.ret.addr = created.offered_resource.addr
           /\ escrow'.requested_resource_vault = escrow.requested_resource_vault
           /\ is_empty(last'.argAfter)
           /\ \A p \in Parties : wallets'[p][EscrowBadgeKind].ids = {} ]_vars

\* a cancel that succeeded after an exchange whose deposit is still held
C11_Witness ==
    /\ last.op = "cancel_escrow" /\ last.ok
    /\ satisfied /\ ~withdrawn
    /\ is_empty(last.ret)
    /\ ~is_empty(escrow.requested_resource_vault)
    /\ ~BadgeExists

BadgeCount ==
    Cardinality(UNION {wallets[p][EscrowBadgeKind].ids : p \in Parties})

Holds(p, b) ==
    /\ b.amt <= wallets[p][b.addr].amt
    /\ b.ids \subseteq wallets[p][b.addr].ids

\* C14: withdraw_resource and cancel_escrow succeed exactly when the
\* presented bucket is a non-empty bucket of the instance's badge, whoever
\* the caller is, and what they do to the vaults does not depend on the
\* caller; a party that does not hold the badge fails; exchange succeeds
\* exactly when its preconditions hold, whatever the caller holds.
C14_PossessionOnly ==
    [][ /\ (IsStep("withdraw_resource") \/ IsStep("cancel_escrow"))
           => /\ last'.ok <=> ValidBadge(last'.arg)
              /\ wallets[last'.caller][EscrowBadgeKind].ids = {} => ~last'.ok
              /\ last'.ok => Holds(last'.caller, last'.arg)
        /\ Succeeds("withdraw_resource")
           => /\ last'.ret = escrow.requested_resource_vault
              /\ escrow' = [escrow EXCEPT !.requested_resource_vault = EmptyOf(@.addr)]
        /\ Succeeds("cancel_escrow")
           => /\ last'.ret = escrow.offered_resource
              /\ escrow' = [escrow EXCEPT !.offered_resource = EmptyOf(@.addr)]
        /\ IsStep("exchange")
           => (last'.ok <=> ExchangePre(escrow.requested_resource, last'.arg)) ]_vars

\* the badge was handed over: the new holder has withdrawn the deposit and
\* the creator holds no badge
C14_Witness ==
    /\ last.op = "withdraw_resource" /\ last.ok
    /\ last.caller = "taker"
    /\ ~is_empty(last.ret)
    /\ wallets["creator"][EscrowBadgeKind].ids = {}
    /\ wallets["taker"][EscrowBadgeKind].ids # {}

OfferedEmpty == is_empty(escrow.offered_resource)
RequestedEmpty == is_empty(escrow.requested_resource_vault)

\* C15 as stated: the offered vault goes from non-empty to empty in exactly
\* the successful exchange or cancel steps and never becomes non-empty again;
\* the requested vault goes from empty to non-empty in exactly the successful
\* exchange steps, every successful exchange leaves it non-empty, and it goes
\* from non-empty to empty in exactly the successful withdraw steps.
C15_Original ==
    [][ /\ (~OfferedEmpty /\ OfferedEmpty')
           => (Succeeds("exchange") \/ Succeeds("cancel_escrow"))
        /\ ((Succeeds("exchange") \/ Succeeds("cancel_escrow")) /\ ~OfferedEmpty)
           => OfferedEmpty'
        /\ OfferedEmpty => OfferedEmpty'
        /\ (RequestedEmpty /\ ~RequestedEmpty') => Succeeds("exchange")
        /\ Succeeds("exchange") => ~RequestedEmpty'
        /\ (~RequestedEmpty /\ RequestedEmpty') => Succeeds("withdraw_resource")
        /\ (Succeeds("withdraw_resource") /\ ~RequestedEmpty) => RequestedEmpty' ]_vars

\* C15 as amended: the same, except that a successful exchange leaves the
\* requested vault non-empty when the request is non-fungible or for a
\* positive amount; a request for amount 0 deposits nothing.
C15_Amended ==
    [][ /\ (~OfferedEmpty /\ OfferedEmpty')
           => (Succeeds("exchange") \/ Succeeds("cancel_escrow"))
        /\ ((Succeeds("exchange") \/ Succeeds("cancel_escrow")) /\ ~OfferedEmpty)
           => OfferedEmpty'
        /\ OfferedEmpty => OfferedEmpty'
        /\ (RequestedEmpty /\ ~RequestedEmpty') => Succeeds("exchange")
        /\ (Succeeds("exchange")
            /\ (escrow.requested_resource.tag = "NonFungible"
                \/ escrow.requested_resource.amount > 0))
           => ~RequestedEmpty'
        /\ (Succeeds("exchange") /\ escrow.requested_resource.tag = "Fungible"
            /\ escrow.requested_resource.amount = 0)
           => escrow'.requested_resource_vault = escrow.requested_resource_vault
        /\ (~RequestedEmpty /\ RequestedEmpty') => Succeeds("withdraw_resource")
        /\ (Succeeds("withdraw_resource") /\ ~RequestedEmpty) => RequestedEmpty' ]_vars

\* both vaults have gone through their changes: the offer left in an
\* exchange, the deposit came in and has been withdrawn
C15_Witness ==
    /\ satisfied /\ withdrawn /\ ~canceled
    /\ OfferedEmpty /\ RequestedEmpty
    /\ last.op = "withdraw_resource" /\ last.ok /\ ~is_empty(last.ret)

RequestedPiece ==
    LET rr == escrow.requested_resource IN
    IF rr.tag = "Fungible"
    THEN [addr |-> rr.resource_address, amt |-> rr.amount, ids |-> {}]
    ELSE [addr |-> rr.resource_address, amt |-> 0, ids |-> {rr.non_fungible_local_id}]

\* C16: in every step that changes the offered vault, either the step is a
\* successful exchange that moves exactly the requested amount or item from
\* the caller's bucket into the requested vault, or it is a successful cancel
\* that presented a non-empty bucket of the instance's badge held by the
\* caller; the offered vault only ever loses content.
C16_ReleasedOnlyAgainstPaymentOrBadge ==
    [][ escrow'.offered_resource # escrow.offered_resource
        => /\ OfferedEmpty' /\ ~OfferedEmpty
           /\ \/ /\ Succeeds("exchange")
                 /\ Holds(last'.caller, last'.arg)
                 /\ last'.argAfter = Minus(last'.arg, RequestedPiece)
                 /\ escrow'.requested_resource_vault =
                        Plus(escrow.requested_resource_vault, RequestedPiece)
                 /\ RequestedPiece.ids \cap escrow.requested_resource_vault.ids = {}
                 /\ last'.ret = escrow.offered_resource
              \/ /\ Succeeds("cancel_escrow")
                 /\ ValidBadge(last'.arg)
                 /\ Holds(last'.caller, last'.arg)
                 /\ last'.ret = escrow.offered_resource ]_vars

\* the offer has just been released against the requested item
C16_Witness ==
    /\ last.op = "exchange" /\ last.ok
    /\ last.ret = created.offered_resource
    /\ escrow.requested_resource.tag = "NonFungible"
    /\ escrow.requested_resource_vault.ids = {escrow.requested_resource.non_fungible_local_id}
    /\ OfferedEmpty

RECURSIVE SumAmt(_, _, _)
SumAmt(S, w, k) ==
    IF S = {} THEN 0
    ELSE LET p == CHOOSE x \in S : TRUE IN w[p][k].amt + SumAmt(S \ {p}, w, k)

RECURSIVE SumIds(_, _, _)
SumIds(S, w, k) ==
    IF S = {} THEN 0
    ELSE LET p == CHOOSE x \in S : TRUE
         IN  Cardinality(w[p][k].ids) + SumIds(S \ {p}, w, k)

\* the units and the items of resource k held by the two vaults of component
\* e and the wallets w; items are counted with multiplicity
TotalOf(e, w, k) ==
    LET o == IF e.offered_resource.addr = k THEN e.offered_resource ELSE EmptyOf(k)
        v == IF e.requested_resource_vault.addr = k
             THEN e.requested_resource_vault ELSE EmptyOf(k)
    IN  [amt   |-> o.amt + v.amt + SumAmt(Parties, w, k),
         count |-> Cardinality(o.ids) + Cardinality(v.ids) + SumIds(Parties, w, k),
         ids   |-> o.ids \cup v.ids \cup UNION {w[p][k].ids : p \in Parties}]

\* the totals right after creation, from the arguments of instantiate_escrow
TotalAtCreation(k) ==
    LET r == instantiate_escrow(created.requested_resource, created.offered_resource,
                                CHOOSE id \in BadgeIds : TRUE)
    IN  TotalOf(r.component, InitialWallets(created.offered_resource, r.badge), k)

C18_SatisfyDependsOnBucketOnly ==
    /\ [](escrow.requested_resource = created.requested_resource)
    /\ [][ IsStep("exchange")
           => (last'.ok <=> ExchangePre(created.requested_resource, last'.arg)) ]_vars

\* an exchange that succeeded after an exchange, a withdraw and a cancel
C18_Witness ==
    /\ last.op = "exchange" /\ last.ok
    /\ withdrawn /\ canceled
    /\ OfferedEmpty /\ ~BadgeExists

\* the amount of the request (0 for a non-fungible one)
RequestedAmount == escrow.requested_resource.amount

C20_LockedAfterCancel ==
    [][ canceled
        => /\ escrow'.requested_resource_vault.amt >= escrow.requested_resource_vault.amt
           /\ escrow.requested_resource_vault.ids \subseteq escrow'.requested_resource_vault.ids
           /\ IsStep("withdraw_resource") => ~last'.ok ]_vars

\* a deposit made after the cancel, and a withdraw attempt that has failed
C20_Witness ==
    /\ canceled /\ ~RequestedEmpty
    /\ last.op = "withdraw_resource" /\ ~last.ok
    /\ ~BadgeExists

====
